---- MODULE Spec2Model ----
(***************************************************************************)
(* The licence-check worker: the fetch boundary (src/src/index.ts), the    *)
(* two revisions of checkHandler (src/src/handlers/check.ts and the        *)
(* revision that follows the schema in src/migrations/0001_init.sql),      *)
(* calculateHash (src/src/utils/hash.ts) and the product_keys table.       *)
(*                                                                         *)
(* Text that the code parses (versions, ranges, keys, salts) is a sequence *)
(* of one-character strings; text that the code only compares or returns   *)
(* (digests, response bodies) is a TLA+ string.                            *)
(***************************************************************************)
EXTENDS Integers, Sequences, FiniteSets, TLC

(***************************************************************************)
(* Characters                                                              *)
(***************************************************************************)
DigitChars == <<"0", "1", "2", "3", "4", "5", "6", "7", "8", "9">>

LetterChars ==
    <<"a", "b", "c", "d", "e", "f", "g", "h", "i", "j", "k", "l", "m",
      "n", "o", "p", "q", "r", "s", "t", "u", "v", "w", "x", "y", "z">>

IsDigit(c) == \E i \in 1..10 : DigitChars[i] = c

IsLetter(c) == c = "X" \/ c = "S" \/ \E i \in 1..26 : LetterChars[i] = c

DigitValue(c) == (CHOOSE i \in 1..10 : DigitChars[i] = c) - 1

\* The UTF-16 code unit of a character, as JavaScript's string comparison and
\* TextEncoder see it (every character of the model is ASCII).
CharCode(c) ==
    IF IsDigit(c) THEN 48 + DigitValue(c)
    ELSE IF \E i \in 1..26 : LetterChars[i] = c
         THEN 96 + (CHOOSE i \in 1..26 : LetterChars[i] = c)
    ELSE CASE c = " " -> 32
           [] c = "*" -> 42
           [] c = "+" -> 43
           [] c = "-" -> 45
           [] c = "." -> 46
           [] c = "<" -> 60
           [] c = "=" -> 61
           [] c = ">" -> 62
           [] c = "S" -> 83
           [] c = "X" -> 88
           [] c = "^" -> 94
           [] c = "_" -> 95
           [] c = "~" -> 126

(***************************************************************************)
(* String helpers (String.prototype.trim, indexOf, split)                  *)
(***************************************************************************)
RECURSIVE TrimLeft(_)
TrimLeft(s) == IF s # <<>> /\ s[1] = " " THEN TrimLeft(Tail(s)) ELSE s

RECURSIVE TrimRight(_)
TrimRight(s) ==
    IF s # <<>> /\ s[Len(s)] = " " THEN TrimRight(SubSeq(s, 1, Len(s) - 1)) ELSE s

Trim(s) == TrimRight(TrimLeft(s))

\* The first position of character c in s, 0 when it does not occur.
IndexOf(s, c) ==
    IF \E i \in 1..Len(s) : s[i] = c
    THEN CHOOSE i \in 1..Len(s) : s[i] = c /\ \A j \in 1..(i - 1) : s[j] # c
    ELSE 0

\* s cut at position `at`: what precedes it and what follows it (all of s and
\* nothing when at = 0).
CutAt(s, at) ==
    [head |-> IF at = 0 THEN s ELSE SubSeq(s, 1, at - 1),
     found |-> at # 0,
     tail |-> IF at = 0 THEN <<>> ELSE SubSeq(s, at + 1, Len(s))]

Cut(s, c) == CutAt(s, IndexOf(s, c))

\* s.split(sep): the empty string splits into one empty piece.
RECURSIVE SplitCut(_, _)
SplitCut(cut, sep) ==
    IF cut.found THEN <<cut.head>> \o SplitCut(Cut(cut.tail, sep), sep)
    ELSE <<cut.head>>

Split(s, sep) == SplitCut(Cut(s, sep), sep)

OrEmptyPiece(kept) == IF kept = <<>> THEN << <<>> >> ELSE kept

\* s.split(/\s+/) of a trimmed string, empty pieces between runs of spaces dropped.
SplitSpaces(s) == OrEmptyPiece(SelectSeq(Split(s, " "), LAMBDA piece : piece # <<>>))

RECURSIVE ToNumber(_)
ToNumber(s) ==
    IF s = <<>> THEN 0
    ELSE 10 * ToNumber(SubSeq(s, 1, Len(s) - 1)) + DigitValue(s[Len(s)])

(***************************************************************************)
(* semver: versions.  The grammar of the package's strict FULL pattern:    *)
(* an optional v, three dot-separated numeric identifiers without leading  *)
(* zeros, an optional "-" and dot-separated prerelease identifiers, an     *)
(* optional "+" and dot-separated build identifiers.                       *)
(***************************************************************************)
AllDigits(s) == s # <<>> /\ \A i \in 1..Len(s) : IsDigit(s[i])

NoLeadingZero(s) == Len(s) = 1 \/ s[1] # "0"

\* NUMERICIDENTIFIER: 0|[1-9]\d*
IsNumericIdentifier(s) == AllDigits(s) /\ NoLeadingZero(s)

IsIdChar(c) == IsDigit(c) \/ IsLetter(c) \/ c = "-"

\* BUILDIDENTIFIER: [a-zA-Z0-9-]+
IsBuildIdentifier(s) == s # <<>> /\ \A i \in 1..Len(s) : IsIdChar(s[i])

\* PRERELEASEIDENTIFIER: a numeric identifier, or an identifier with a letter or hyphen.
IsPrereleaseIdentifier(s) ==
    IsBuildIdentifier(s) /\ (AllDigits(s) => NoLeadingZero(s))

\* A prerelease identifier as the SemVer constructor keeps it: a number when it is
\* all digits, the string otherwise.
PrereleaseId(s) ==
    IF AllDigits(s) THEN [numeric |-> TRUE, num |-> ToNumber(s), str |-> <<>>]
    ELSE [numeric |-> FALSE, num |-> 0, str |-> s]

NoSemVer == [ok |-> FALSE, major |-> 0, minor |-> 0, patch |-> 0, prerelease |-> <<>>]

MkSemVer(M, m, p, pre) ==
    [ok |-> TRUE, major |-> M, minor |-> m, patch |-> p, prerelease |-> pre]

\* The pieces of "main-prerelease+build": the first '+' starts the build, the first
\* '-' before it starts the prerelease.
PiecesFrom(beforeDash, beforePlus) ==
    [main |-> beforeDash.head,
     hasPre |-> beforeDash.found,
     pre |-> beforeDash.tail,
     hasBuild |-> beforePlus.found,
     build |-> beforePlus.tail]

PiecesOf(beforePlus) == PiecesFrom(Cut(beforePlus.head, "-"), beforePlus)

Pieces(body) == PiecesOf(Cut(body, "+"))

AllPrereleaseIdentifiers(ids) == \A i \in 1..Len(ids) : IsPrereleaseIdentifier(ids[i])

AllBuildIdentifiers(ids) == \A i \in 1..Len(ids) : IsBuildIdentifier(ids[i])

PrereleaseOk(pc) == pc.hasPre => AllPrereleaseIdentifiers(Split(pc.pre, "."))

BuildOk(pc) == pc.hasBuild => AllBuildIdentifiers(Split(pc.build, "."))

PrereleaseIds(ids) == [i \in 1..Len(ids) |-> PrereleaseId(ids[i])]

PrereleaseOf(pc) == IF pc.hasPre THEN PrereleaseIds(Split(pc.pre, ".")) ELSE <<>>

DropV(t) == IF t # <<>> /\ t[1] = "v" THEN Tail(t) ELSE t

SemVerOfParts(nums, pc) ==
    IF /\ Len(nums) = 3
       /\ \A i \in 1..3 : IsNumericIdentifier(nums[i])
       /\ PrereleaseOk(pc)
       /\ BuildOk(pc)
    THEN MkSemVer(ToNumber(nums[1]), ToNumber(nums[2]), ToNumber(nums[3]),
                  PrereleaseOf(pc))
    ELSE NoSemVer

SemVerOfPieces(pc) == SemVerOfParts(Split(pc.main, "."), pc)

\* new SemVer(version): the parsed version, NoSemVer where the constructor throws.
ParseSemVer(version) == SemVerOfPieces(Pieces(DropV(Trim(version))))

\* semver.valid(version): truthy exactly when the version parses.
valid(version) == ParseSemVer(version).ok

Sign(n) == IF n < 0 THEN -1 ELSE IF n > 0 THEN 1 ELSE 0

\* JavaScript's a < b on strings: code units, left to right, a proper prefix first.
RECURSIVE StringLess(_, _)
StringLess(a, b) ==
    IF b = <<>> THEN FALSE
    ELSE IF a = <<>> THEN TRUE
    ELSE IF a[1] = b[1] THEN StringLess(Tail(a), Tail(b))
    ELSE CharCode(a[1]) < CharCode(b[1])

\* compareIdentifiers: numbers before strings, numbers by value, strings by code unit.
CompareIdentifiers(a, b) ==
    IF a.numeric /\ b.numeric THEN Sign(a.num - b.num)
    ELSE IF a.numeric THEN -1
    ELSE IF b.numeric THEN 1
    ELSE IF a.str = b.str THEN 0
    ELSE IF StringLess(a.str, b.str) THEN -1 ELSE 1

RECURSIVE ComparePreFrom(_, _, _)
ComparePreFrom(a, b, i) ==
    IF i > Len(a) /\ i > Len(b) THEN 0
    ELSE IF i > Len(b) THEN 1
    ELSE IF i > Len(a) THEN -1
    ELSE IF a[i] = b[i] THEN ComparePreFrom(a, b, i + 1)
    ELSE CompareIdentifiers(a[i], b[i])

\* SemVer.comparePre: a version with a prerelease sorts before the same version
\* without one.
ComparePre(a, b) ==
    IF a.prerelease # <<>> /\ b.prerelease = <<>> THEN -1
    ELSE IF a.prerelease = <<>> /\ b.prerelease # <<>> THEN 1
    ELSE IF a.prerelease = <<>> /\ b.prerelease = <<>> THEN 0
    ELSE ComparePreFrom(a.prerelease, b.prerelease, 1)

CompareMain(a, b) ==
    IF a.major # b.major THEN Sign(a.major - b.major)
    ELSE IF a.minor # b.minor THEN Sign(a.minor - b.minor)
    ELSE Sign(a.patch - b.patch)

\* JavaScript's x || y on numbers
OrElse(x, y) == IF x # 0 THEN x ELSE y

\* SemVer.compare: compareMain(other) || comparePre(other); build metadata takes
\* no part.
Compare(a, b) == OrElse(CompareMain(a, b), ComparePre(a, b))

(***************************************************************************)
(* semver: ranges.  A range is a space-separated conjunction of            *)
(* comparators; carets, tildes and x-ranges are rewritten to primitive     *)
(* comparators as parseComparator does (options: strict, prereleases not   *)
(* included).  The ranges of the model carry no "||", no hyphen range and  *)
(* no space between an operator and its version, so the package's          *)
(* hyphenReplace and the three trim rewrites leave them unchanged.         *)
(***************************************************************************)
ANY == [operator |-> "", any |-> TRUE, semver |-> NoSemVer]

Comparator(op, v) == [operator |-> op, any |-> FALSE, semver |-> v]

PreZero == << [numeric |-> TRUE, num |-> 0, str |-> <<>>] >>

AtLeast(M, m, p, pre) == Comparator(">=", MkSemVer(M, m, p, pre))

\* An upper bound: below M.m.p-0
Below(M, m, p) == Comparator("<", MkSemVer(M, m, p, PreZero))

NoSet == [ok |-> FALSE, set |-> <<>>]

OkSet(cs) == [ok |-> TRUE, set |-> cs]

\* XRANGEIDENTIFIER: a numeric identifier, x, X or *
IsXRangeIdentifier(s) ==
    IsNumericIdentifier(s) \/ s = <<"x">> \/ s = <<"X">> \/ s = <<"*">>

\* isX(id): a missing component, x, X or *
isX(id) == id = <<>> \/ id = <<"x">> \/ id = <<"X">> \/ id = <<"*">>

\* +id, for a component that is a number
NumberOf(id) == IF AllDigits(id) THEN ToNumber(id) ELSE 0

RECURSIVE StripVEq(_)
StripVEq(s) ==
    IF s # <<>> /\ (s[1] = "v" \/ s[1] = "=" \/ s[1] = " ") THEN StripVEq(Tail(s)) ELSE s

Component(comps, k) == IF Len(comps) >= k THEN comps[k] ELSE <<>>

\* The match of XRANGEPLAIN: its components M, m, p (as text and as numbers, with
\* xM, xm, xp telling which are x), its prerelease, and whether it is a plain
\* version that the Comparator pattern accepts as written.
XRangeOfParts(prefix, pc, comps) ==
    [ok |-> /\ Len(comps) <= 3
            /\ \A i \in 1..Len(comps) : IsXRangeIdentifier(comps[i])
            /\ (pc.hasPre \/ pc.hasBuild) => Len(comps) = 3
            /\ PrereleaseOk(pc)
            /\ BuildOk(pc),
     M |-> NumberOf(Component(comps, 1)),
     m |-> NumberOf(Component(comps, 2)),
     p |-> NumberOf(Component(comps, 3)),
     zeroM |-> Component(comps, 1) = <<"0">>,
     zerom |-> Component(comps, 2) = <<"0">>,
     xM |-> isX(Component(comps, 1)),
     xm |-> isX(Component(comps, 1)) \/ isX(Component(comps, 2)),
     xp |-> \E k \in 1..3 : isX(Component(comps, k)),
     pr |-> PrereleaseOf(pc),
     plain |-> prefix = <<>> \/ prefix = <<"v">>]

XRangeOfPieces(prefix, pc) == XRangeOfParts(prefix, pc, Split(pc.main, "."))

XRangeOfBody(s, body) == XRangeOfPieces(SubSeq(s, 1, Len(s) - Len(body)), Pieces(body))

\* XRANGEPLAIN: any run of v, = and spaces, then one to three dot-separated x-range
\* identifiers; a prerelease and a build may follow the third.
ParseXRangePlain(s) == XRangeOfBody(s, StripVEq(s))

\* replaceCaret
CaretComparators_NoZeroMajor(x) ==
    IF x.xM THEN <<ANY>>
    ELSE IF x.xm THEN <<AtLeast(x.M, 0, 0, <<>>), Below(x.M + 1, 0, 0)>>
    ELSE IF x.xp THEN <<AtLeast(x.M, x.m, 0, <<>>), Below(x.M + 1, 0, 0)>>
    ELSE <<AtLeast(x.M, x.m, x.p, x.pr), Below(x.M + 1, 0, 0)>>

CaretComparators(x) ==
    IF x.xM THEN <<ANY>>
    ELSE IF x.xm THEN <<AtLeast(x.M, 0, 0, <<>>), Below(x.M + 1, 0, 0)>>
    ELSE IF x.xp
    THEN IF x.zeroM
         THEN <<AtLeast(x.M, x.m, 0, <<>>), Below(x.M, x.m + 1, 0)>>
         ELSE <<AtLeast(x.M, x.m, 0, <<>>), Below(x.M + 1, 0, 0)>>
    ELSE IF x.zeroM
    THEN IF x.zerom
         THEN <<AtLeast(x.M, x.m, x.p, x.pr), Below(x.M, x.m, x.p + 1)>>
         ELSE <<AtLeast(x.M, x.m, x.p, x.pr), Below(x.M, x.m + 1, 0)>>
    ELSE <<AtLeast(x.M, x.m, x.p, x.pr), Below(x.M + 1, 0, 0)>>

\* replaceTilde
TildeComparators(x) ==
    IF x.xM THEN <<ANY>>
    ELSE IF x.xm THEN <<AtLeast(x.M, 0, 0, <<>>), Below(x.M + 1, 0, 0)>>
    ELSE IF x.xp THEN <<AtLeast(x.M, x.m, 0, <<>>), Below(x.M, x.m + 1, 0)>>
    ELSE <<AtLeast(x.M, x.m, x.p, x.pr), Below(x.M, x.m + 1, 0)>>

\* replaceXRange followed by replaceStars and the Comparator constructor, for the
\* operator g (an = before an x-range already dropped).
XRangeFor(g, x) ==
    IF x.xM
    THEN IF g = ">" \/ g = "<" THEN OkSet(<<Below(0, 0, 0)>>) ELSE OkSet(<<ANY>>)
    ELSE IF g # "" /\ x.xp
    THEN IF g = ">"
         THEN IF x.xm THEN OkSet(<<AtLeast(x.M + 1, 0, 0, <<>>)>>)
              ELSE OkSet(<<AtLeast(x.M, x.m + 1, 0, <<>>)>>)
         ELSE IF g = "<="
         THEN IF x.xm THEN OkSet(<<Below(x.M + 1, 0, 0)>>)
              ELSE OkSet(<<Below(x.M, x.m + 1, 0)>>)
         ELSE IF g = "<"
         THEN OkSet(<<Below(x.M, IF x.xm THEN 0 ELSE x.m, 0)>>)
         ELSE OkSet(<<AtLeast(x.M, IF x.xm THEN 0 ELSE x.m, 0, <<>>)>>)
    ELSE IF x.xm THEN OkSet(<<AtLeast(x.M, 0, 0, <<>>), Below(x.M + 1, 0, 0)>>)
    ELSE IF x.xp THEN OkSet(<<AtLeast(x.M, x.m, 0, <<>>), Below(x.M, x.m + 1, 0)>>)
    ELSE IF x.plain
    THEN OkSet(<<Comparator(IF g = "=" THEN "" ELSE g, MkSemVer(x.M, x.m, x.p, x.pr))>>)
    ELSE NoSet

XRangeComparators(gtlt, x) == XRangeFor(IF gtlt = "=" /\ x.xp THEN "" ELSE gtlt, x)

\* GTLT: ((?:<|>)?=?), greedy.
GtltOf(comp) ==
    IF comp # <<>> /\ (comp[1] = "<" \/ comp[1] = ">")
    THEN IF Len(comp) >= 2 /\ comp[2] = "=" THEN comp[1] \o "=" ELSE comp[1]
    ELSE IF comp # <<>> /\ comp[1] = "=" THEN "=" ELSE ""

\* replaceGTE0: the comparator >=0.0.0 is the comparator that matches anything.
ReplaceGTE0(c) ==
    IF ~c.any /\ c.operator = ">=" /\ c.semver = MkSemVer(0, 0, 0, <<>>) THEN ANY ELSE c

\* replaceCarets, replaceTildes and replaceXRanges act on a piece that matches
\* their pattern; a piece that matches none is no comparator.
CaretOf(x) == IF x.ok THEN OkSet(CaretComparators(x)) ELSE NoSet

TildeOf(x) == IF x.ok THEN OkSet(TildeComparators(x)) ELSE NoSet

XRangeOf(gtlt, x) == IF x.ok THEN XRangeComparators(gtlt, x) ELSE NoSet

\* What follows the tilde operator, ~ or ~>.
AfterTilde(comp) ==
    IF Len(comp) >= 2 /\ comp[2] = ">" THEN SubSeq(comp, 3, Len(comp)) ELSE Tail(comp)

AfterGtlt(comp) == SubSeq(comp, Len(GtltOf(comp)) + 1, Len(comp))

ReplaceAllGTE0(parsed) ==
    IF parsed.ok
    THEN OkSet([i \in 1..Len(parsed.set) |-> ReplaceGTE0(parsed.set[i])])
    ELSE NoSet

\* The pattern a piece is matched against, by its first character.
PieceKind(comp) ==
    IF comp = <<>> THEN "empty"
    ELSE IF comp[1] = "^" THEN "caret"
    ELSE IF comp[1] = "~" THEN "tilde"
    ELSE "xrange"

\* What follows the operator of a piece.
AfterOperator(comp) ==
    CASE PieceKind(comp) = "empty" -> <<>>
      [] PieceKind(comp) = "caret" -> Tail(comp)
      [] PieceKind(comp) = "tilde" -> AfterTilde(comp)
      [] PieceKind(comp) = "xrange" -> AfterGtlt(comp)

ComparatorsOf(kind, gtlt, x) ==
    CASE kind = "empty" -> OkSet(<<ANY>>)
      [] kind = "caret" -> CaretOf(x)
      [] kind = "tilde" -> TildeOf(x)
      [] kind = "xrange" -> XRangeOf(gtlt, x)

\* parseComparator and new Comparator, for one space-separated piece of a range:
\* the primitive comparators it stands for, NoSet where the constructor throws.
ParseComparator(comp) ==
    ReplaceAllGTE0(ComparatorsOf(PieceKind(comp), GtltOf(comp),
                                 ParseXRangePlain(AfterOperator(comp))))

RECURSIVE ConcatSets(_)
ConcatSets(ps) ==
    IF ps = <<>> THEN <<>> ELSE ps[1].set \o ConcatSets(Tail(ps))

RangeOfParsed(parsed) ==
    IF \A i \in 1..Len(parsed) : parsed[i].ok THEN OkSet(ConcatSets(parsed)) ELSE NoSet

RangeOfPieces(comps) == RangeOfParsed([i \in 1..Len(comps) |-> ParseComparator(comps[i])])

\* new Range(range): its comparator set, NoSet where the constructor throws.
ParseRange(range) == RangeOfPieces(SplitSpaces(Trim(range)))

\* semver.validRange(range): truthy exactly when the Range constructor does not throw.
validRange(range) == ParseRange(range).ok

CmpHolds_Exclusive(op, c) ==
    CASE op = "" -> c = 0
      [] op = "<" -> c < 0
      [] op = "<=" -> c <= 0
      [] op = ">" -> c > 0
      [] op = ">=" -> c > 0

CmpHolds(op, c) ==
    CASE op = "" -> c = 0
      [] op = "<" -> c < 0
      [] op = "<=" -> c <= 0
      [] op = ">" -> c > 0
      [] op = ">=" -> c >= 0

\* cmp(a, op, b)
Cmp(a, op, b) == CmpHolds(op, Compare(a, b))

\* Comparator.test
TestComparator_NoAny(c, v) == ~c.any /\ Cmp(v, c.operator, c.semver)

TestComparator(c, v) == c.any \/ Cmp(v, c.operator, c.semver)

\* testSet: every comparator holds, and a version with a prerelease is let in only
\* by a comparator with a prerelease on the same major.minor.patch.
TestSet(set, v) ==
    /\ \A i \in 1..Len(set) : TestComparator(set[i], v)
    /\ v.prerelease # <<>> =>
          \E i \in 1..Len(set) :
              /\ ~set[i].any
              /\ set[i].semver.prerelease # <<>>
              /\ set[i].semver.major = v.major
              /\ set[i].semver.minor = v.minor
              /\ set[i].semver.patch = v.patch

\* Range.test
RangeTest(r, v) == r.ok /\ v.ok /\ TestSet(r.set, v)

\* semver.satisfies(version, range): false when the range or the version does not
\* parse (both constructors' throws are caught).
satisfies(version, range) == RangeTest(ParseRange(range), ParseSemVer(version))

(***************************************************************************)
(* calculateHash: HMAC-SHA256 of the data under the key, as lowercase hex. *)
(* crypto.subtle's HMAC is abstracted by a deterministic keyed mixing      *)
(* function with a 32-byte result; DigestsDistinct states that it has no   *)
(* collision on the keys and salts of the model.                           *)
(***************************************************************************)
SignatureBytes == 32

HexChars == <<"0", "1", "2", "3", "4", "5", "6", "7", "8", "9", "a", "b", "c", "d", "e", "f">>

\* TextEncoder.encode: one byte for each (ASCII) character.
Encode(s) == [i \in 1..Len(s) |-> CharCode(s[i])]

RECURSIVE Absorb(_, _)
Absorb(h, bytes) ==
    IF bytes = <<>> THEN h
    ELSE Absorb((h * 131 + bytes[1] + 1) % 1000003, Tail(bytes))

Spread(seed) ==
    [i \in 1..SignatureBytes |->
        ((seed \div (1 + (i % 4) * 61)) + (seed % 251) * i + i * i) % 256]

\* crypto.subtle.sign('HMAC', importKey(keyData), data): 32 bytes.
HmacSha256(keyData, data) == Spread(Absorb(Absorb(Absorb(7, keyData), <<255>>), data))

\* Number.prototype.toString(16) of a byte
ToString16(b) ==
    IF b < 16 THEN HexChars[b + 1]
    ELSE HexChars[(b \div 16) + 1] \o HexChars[(b % 16) + 1]

\* String.prototype.padStart(2, '0')
PadStart2_None(s) == s

PadStart2(s) == IF Len(s) < 2 THEN "0" \o s ELSE s

RECURSIVE Join(_)
Join(parts) == IF parts = <<>> THEN "" ELSE parts[1] \o Join(Tail(parts))

\* Array.from(new Uint8Array(signature)).map(b => ...).join('')
HexOf(signature) ==
    Join([i \in 1..Len(signature) |-> PadStart2(ToString16(signature[i]))])

\* src/src/utils/hash.ts, imported by the revision of checkHandler that validates
\* ranges.
calculateHash(key, data) == HexOf(HmacSha256(Encode(key), Encode(data)))

\* The private copy in src/src/handlers/check.ts.
calculateHashLocal(key, salt) == HexOf(HmacSha256(Encode(key), Encode(salt)))

(***************************************************************************)
(* Bounds and the inputs of the model                                      *)
(***************************************************************************)
MaxRows == 2

MaxTime == 1

K1 == <<"k", "1">>
K2 == <<"k", "2">>
ServerKey == <<"S">>
Salt1 == <<"s", "1">>
Salt2 == <<"s", "2">>

\* Product keys the administrator may insert.
Keys == {K1, K2}

CaretOne == <<"^", "1", ".", "0", ".", "0">>
Star == <<"*">>
BadRange == <<"i", "n", "v", "a", "l", "i", "d">>

\* Ranges the administrator may insert; add_key.sh does not validate them.
Ranges == {CaretOne, Star, BadRange}

V150 == <<"1", ".", "5", ".", "0">>
V200 == <<"2", ".", "0", ".", "0">>
VMajorOnly == <<"1">>

\* A query parameter as url.searchParams.get returns it: null when absent.
Given(v) == [present |-> TRUE, value |-> v]
NullText == [present |-> FALSE, value |-> ""]
NullChars == [present |-> FALSE, value |-> <<>>]

Variants == {"plain", "validated"}

\* The requests to /check with the given parameters, for either revision of the
\* handler, and one request to another path.
Requests(vals, versions, salts) ==
    [path : {"check"}, variant : Variants, val : vals, version : versions, salt : salts]
        \cup {[path |-> "other", variant |-> "plain", val |-> NullText,
               version |-> NullChars, salt |-> NullChars]}

\* The requests of the main specification.
MainRequests ==
    Requests({Given(calculateHash(k, Salt1)) : k \in Keys \cup {ServerKey}}
                 \cup {Given(calculateHash(K1, Salt2)), NullText},
             {Given(V150), Given(V200), Given(VMajorOnly), Given(<<>>)},
             {Given(Salt1), Given(Salt2), NullChars})

(***************************************************************************)
(* State                                                                   *)
(***************************************************************************)
VARIABLES
    db,          \* product_keys, in insertion order: key_value, semver_range, created_at
    SERVER_KEY,  \* env.SERVER_KEY
    calls        \* the invocations of fetch, by slot

vars == <<db, SERVER_KEY, calls>>

NoResponse == [status |-> 0, body |-> "", contentType |-> ""]

\* new Response(body, { status }): a string body is sent as text/plain;charset=UTF-8.
TextResponse(status, body) ==
    [status |-> status, body |-> body, contentType |-> "text/plain;charset=UTF-8"]

MissingParameters == TextResponse(400, "Missing parameters: val, version, or salt")
InvalidVersion == TextResponse(400, "Invalid version format")
Denied == TextResponse(403, "Invalid ID or Version")
NotFound == TextResponse(404, "Invalid url path")
InternalError == TextResponse(500, "Internal Server Error")

Authenticated(serverResponse) ==
    [status |-> 200, body |-> serverResponse, contentType |-> "text/plain"]

Idle ==
    [pc |-> "idle", path |-> "", variant |-> "plain",
     val |-> NullText, version |-> NullChars, salt |-> NullChars,
     store |-> "unread", reads |-> 0, results |-> <<>>, i |-> 0,
     isValid |-> FALSE, response |-> NoResponse]

\* !param of a string-or-null: null and the empty string are falsy (val is kept
\* as a string, version and salt as characters).
FalsyText(param) == ~param.present \/ param.value = ""

FalsyChars(param) == ~param.present \/ param.value = <<>>

(***************************************************************************)
(* The store                                                               *)
(***************************************************************************)
Row(key, range, at) == [key_value |-> key, semver_range |-> range, created_at |-> at]

\* The columns the query selects.
Selected(row) == [key_value |-> row.key_value, semver_range |-> row.semver_range]

RowOrders(n) == {f \in [1..n -> 1..n] : \A a, b \in 1..n : a # b => f[a] # f[b]}

\* SELECT key_value, semver_range FROM product_keys [ORDER BY created_at ASC]:
\* the row sequences the store may return.  Without ORDER BY the order is
\* unspecified; with it, rows with equal created_at come in an unspecified order.
QueryResults_Unordered(table, variant) ==
    {[j \in 1..Len(table) |-> Selected(table[f[j]])] : f \in RowOrders(Len(table))}

QueryResults_Limit(table, variant) ==
    IF table = <<>> THEN {<<>>}
    ELSE {<<Selected(table[j])>> :
             j \in {k \in 1..Len(table) :
                       variant = "validated"
                           => \A a \in 1..Len(table) :
                                  table[k].created_at <= table[a].created_at}}

QueryResults(table, variant) ==
    LET n == Len(table)
        sorted(f) == \A a, b \in 1..n :
                        a < b => table[f[a]].created_at <= table[f[b]].created_at
    IN  {[j \in 1..n |-> Selected(table[f[j]])] :
            f \in {g \in RowOrders(n) : variant = "validated" => sorted(g)}}

\* The created_at of the row inserted last: CURRENT_TIMESTAMP, in seconds, does
\* not run backwards, so no later row gets an earlier one.
LastTimestamp(table) == IF table = <<>> THEN 0 ELSE table[Len(table)].created_at

\* scripts/add_key.sh: INSERT INTO product_keys (key_value, semver_range); both
\* must be non-empty, key_value is UNIQUE, created_at defaults to CURRENT_TIMESTAMP.
AddKey ==
    \E key \in Keys, range \in Ranges, at \in 0..MaxTime :
        /\ Len(db) < MaxRows
        /\ at >= LastTimestamp(db)
        /\ key # <<>> /\ range # <<>>
        /\ \A j \in 1..Len(db) : db[j].key_value # key
        /\ db' = Append(db, Row(key, range, at))
        /\ UNCHANGED <<SERVER_KEY, calls>>

\* The administrative surface revokes a key.
RevokeKey ==
    \E j \in 1..Len(db) :
        /\ db' = [k \in 1..(Len(db) - 1) |-> IF k < j THEN db[k] ELSE db[k + 1]]
        /\ UNCHANGED <<SERVER_KEY, calls>>

(***************************************************************************)
(* checkHandler, between awaits                                            *)
(***************************************************************************)
\* One row of the loop: "hash" when the row's digest is to be compared, "skip"
\* when the loop moves on.  Only the validated revision calls validRange.
RowCheck_AnyRange(variant, version, row) ==
    IF variant = "validated" /\ ~validRange(row.semver_range) THEN "skip" ELSE "hash"

RowCheck(variant, version, row) ==
    IF variant = "validated" /\ ~validRange(row.semver_range) THEN "skip"
    ELSE IF satisfies(version, row.semver_range) THEN "hash"
    ELSE "skip"

\* The loop from row i up to the first row whose digest is to be compared:
\* that row's index, Len(results) + 1 when the loop runs out.
RECURSIVE NextCandidate_Abort(_, _, _, _)
NextCandidate_Abort(variant, version, results, i) ==
    IF i > Len(results) THEN i
    ELSE IF ~validRange(results[i].semver_range) THEN Len(results) + 1
    ELSE IF RowCheck(variant, version, results[i]) = "hash" THEN i
    ELSE NextCandidate_Abort(variant, version, results, i + 1)

RECURSIVE NextCandidate(_, _, _, _)
NextCandidate(variant, version, results, i) ==
    IF i > Len(results) THEN i
    ELSE IF RowCheck(variant, version, results[i]) = "hash" THEN i
    ELSE NextCandidate(variant, version, results, i + 1)

\* The loop resumed at row `from`: it suspends on a row's calculateHash, or runs
\* out with isValid false and the handler returns 403.
SuspendAt_SharedFlag(call, j) ==
    IF j <= Len(call.results) THEN [call EXCEPT !.pc = "hashing", !.i = j]
    ELSE IF \E d \in DOMAIN calls : calls[d].isValid
    THEN [call EXCEPT !.isValid = TRUE, !.pc = "attesting", !.i = j]
    ELSE [call EXCEPT !.pc = "done", !.i = j, !.response = Denied]

SuspendAt_ServerKey(call, j) ==
    IF j <= Len(call.results) THEN [call EXCEPT !.pc = "hashing", !.i = j]
    ELSE IF calculateHash(SERVER_KEY, call.salt.value) = call.val.value
    THEN [call EXCEPT !.isValid = TRUE, !.pc = "attesting", !.i = j]
    ELSE [call EXCEPT !.pc = "done", !.i = j, !.response = Denied]

SuspendAt_Cause(call, j) ==
    IF j <= Len(call.results) THEN [call EXCEPT !.pc = "hashing", !.i = j]
    ELSE [call EXCEPT !.pc = "done", !.i = j,
                      !.response = TextResponse(403, IF call.pc = "hashing" THEN "Invalid ID"
                                                     ELSE "Invalid Version")]

SuspendAt(call, j) ==
    IF j <= Len(call.results)
    THEN [call EXCEPT !.pc = "hashing", !.i = j]
    ELSE [call EXCEPT !.pc = "done", !.i = j, !.response = Denied]

Scan(call, from) ==
    SuspendAt(call, NextCandidate(call.variant, call.version.value, call.results, from))

\* The handler's calculateHash: the plain revision has its own copy.
HashOf_FixedSalt(variant, key, salt) ==
    IF variant = "plain" THEN calculateHashLocal(key, Salt1) ELSE calculateHash(key, Salt1)

HashOf(variant, key, salt) ==
    IF variant = "plain" THEN calculateHashLocal(key, salt) ELSE calculateHash(key, salt)

\* Parameter validation, before any await.
Validate_AnyVersion(call) ==
    IF FalsyText(call.val) \/ FalsyChars(call.version) \/ FalsyChars(call.salt)
    THEN [call EXCEPT !.pc = "done", !.response = MissingParameters]
    ELSE [call EXCEPT !.pc = "fetching"]

Validate_ReadFirst(call) == [call EXCEPT !.pc = "fetching"]

Validate_VersionFirst(call) ==
    IF FalsyChars(call.version) \/ ~valid(call.version.value)
    THEN [call EXCEPT !.pc = "done", !.response = InvalidVersion]
    ELSE IF FalsyText(call.val) \/ FalsyChars(call.salt)
    THEN [call EXCEPT !.pc = "done", !.response = MissingParameters]
    ELSE [call EXCEPT !.pc = "fetching"]

Validate(call) ==
    IF FalsyText(call.val) \/ FalsyChars(call.version) \/ FalsyChars(call.salt)
    THEN [call EXCEPT !.pc = "done", !.response = MissingParameters]
    ELSE IF ~valid(call.version.value)
    THEN [call EXCEPT !.pc = "done", !.response = InvalidVersion]
    ELSE [call EXCEPT !.pc = "fetching"]

\* fetch: route on the path; checkHandler runs up to its first await.
Dispatch(call) ==
    IF call.path = "check" THEN Validate(call)
    ELSE [call EXCEPT !.pc = "done", !.response = NotFound]

\* A request arrives on a free slot.
Request(c, requests) ==
    /\ calls[c].pc = "idle"
    /\ \E r \in requests :
          calls' = [calls EXCEPT ![c] =
                       Dispatch([Idle EXCEPT !.path = r.path, !.variant = r.variant,
                                             !.val = r.val, !.version = r.version,
                                             !.salt = r.salt])]
    /\ UNCHANGED <<db, SERVER_KEY>>

\* The response has been sent; the slot is free again.
Complete(c) ==
    /\ calls[c].pc = "done"
    /\ calls' = [calls EXCEPT ![c] = Idle]
    /\ UNCHANGED <<db, SERVER_KEY>>

\* env.auth_db.prepare(...).all() resolves: the loop starts on the rows read.
FetchResolved(c) ==
    /\ calls[c].pc = "fetching"
    /\ \E results \in QueryResults(db, calls[c].variant) :
          calls' = [calls EXCEPT ![c] =
                       Scan([calls[c] EXCEPT !.store = "read", !.results = results,
                                             !.reads = calls[c].reads + 1], 1)]
    /\ UNCHANGED <<db, SERVER_KEY>>

\* The rejection of the store read is not caught in checkHandler: fetch's catch
\* answers 500.
Thrown_Retry(call) == [call EXCEPT !.pc = "fetching"]

Thrown_Denied(call) == [call EXCEPT !.pc = "done", !.response = Denied]

Thrown(call) == [call EXCEPT !.pc = "done", !.response = InternalError]

\* The store read fails.
FetchRejected(c) ==
    /\ calls[c].pc = "fetching"
    /\ calls' = [calls EXCEPT ![c] =
                    Thrown([calls[c] EXCEPT !.store = "failed",
                                            !.reads = calls[c].reads + 1])]
    /\ UNCHANGED <<db, SERVER_KEY>>

\* After a digest that differs from val the loop goes on with the next row.
AfterMismatch_Deny(call) == [call EXCEPT !.pc = "done", !.response = Denied]

AfterMismatch_Refetch(call) ==
    Scan([call EXCEPT !.results = CHOOSE results \in QueryResults(db, call.variant) : TRUE,
                      !.reads = call.reads + 1], call.i + 1)

AfterMismatch_Attest(call) == [call EXCEPT !.pc = "attesting"]

AfterMismatch(call) == Scan(call, call.i + 1)

\* After a digest equal to val: isValid, break, and the server digest is awaited.
AfterMatch_NoBreak(call) ==
    [call EXCEPT !.isValid = TRUE, !.pc = "attesting", !.i = Len(call.results) + 1]

AfterMatch(call) == [call EXCEPT !.isValid = TRUE, !.pc = "attesting"]

HashResolved_Consume(c) ==
    /\ calls[c].pc = "hashing"
    /\ calls' = [calls EXCEPT ![c] =
                    IF HashOf(calls[c].variant, calls[c].results[calls[c].i].key_value,
                              calls[c].salt.value) = calls[c].val.value
                    THEN AfterMatch(calls[c]) ELSE AfterMismatch(calls[c])]
    /\ db' = SelectSeq(db, LAMBDA row : row.key_value # calls[c].results[calls[c].i].key_value)
    /\ UNCHANGED SERVER_KEY

HashResolved_AnyRow(c) ==
    /\ calls[c].pc = "hashing"
    /\ calls' = [calls EXCEPT ![c] =
                    IF \E k \in 1..Len(calls[c].results) :
                           HashOf(calls[c].variant, calls[c].results[k].key_value,
                                  calls[c].salt.value) = calls[c].val.value
                    THEN AfterMatch(calls[c]) ELSE AfterMismatch(calls[c])]
    /\ UNCHANGED <<db, SERVER_KEY>>

\* hash === val on two strings: the engine compares the lengths, then the
\* characters from the first on, and stops at the first pair that differs.  The
\* number of character pairs it looks at.
StrictEqualsSteps(a, b) ==
    IF Len(a) # Len(b) THEN 0
    ELSE IF a = b THEN Len(a)
    ELSE CHOOSE k \in 1..Len(a) :
             /\ SubSeq(a, k, k) # SubSeq(b, k, k)
             /\ SubSeq(a, 1, k - 1) = SubSeq(b, 1, k - 1)

\* A row's calculateHash resolves and the digest is compared with val.
HashResolved(c) ==
    LET call == calls[c]
        row == call.results[call.i]
        hash == HashOf(call.variant, row.key_value, call.salt.value)
    IN  /\ call.pc = "hashing"
        /\ calls' = [calls EXCEPT ![c] =
                        IF hash = call.val.value THEN AfterMatch(call)
                        ELSE AfterMismatch(call)]
        /\ UNCHANGED <<db, SERVER_KEY>>

\* Phase two: the digest of SERVER_KEY over the request's salt is the body.
ServerResponse_Echo(call) == Authenticated(call.val.value)

ServerResponse(call) ==
    Authenticated(HashOf(call.variant, SERVER_KEY, call.salt.value))

AttestResolved(c) ==
    /\ calls[c].pc = "attesting"
    /\ calls' = [calls EXCEPT ![c] =
                    [calls[c] EXCEPT !.pc = "done", !.response = ServerResponse(calls[c])]]
    /\ UNCHANGED <<db, SERVER_KEY>>

\* The loop run to its end over `results`, from row `from`: the value of isValid.
RECURSIVE isValidFrom(_, _, _)
isValidFrom(call, results, from) ==
    IF from > Len(results) THEN FALSE
    ELSE IF RowCheck(call.variant, call.version.value, results[from]) = "hash"
            /\ HashOf(call.variant, results[from].key_value, call.salt.value) = call.val.value
    THEN TRUE
    ELSE isValidFrom(call, results, from + 1)

\* What checkHandler answers a validated request when the store returns `results`.
ResponseOver(call, results) ==
    IF isValidFrom(call, results, 1) THEN ServerResponse(call) ELSE Denied

\* A step of checkHandler (or of the fetch boundary around it) for slot c.
HandlerStep(c) ==
    \/ Request(c, MainRequests)
    \/ FetchResolved(c)
    \/ FetchRejected(c)
    \/ HashResolved(c)
    \/ AttestResolved(c)
    \/ Complete(c)

(***************************************************************************)
(* Spec: one request at a time, with administration in between             *)
(***************************************************************************)
Init ==
    /\ db = <<>>
    /\ SERVER_KEY = ServerKey
    /\ calls = [c \in {1} |-> Idle]

Next ==
    \/ AddKey
    \/ RevokeKey
    \/ \E c \in DOMAIN calls : Request(c, MainRequests)
    \/ \E c \in DOMAIN calls : FetchResolved(c)
    \/ \E c \in DOMAIN calls : FetchRejected(c)
    \/ \E c \in DOMAIN calls : HashResolved(c)
    \/ \E c \in DOMAIN calls : AttestResolved(c)
    \/ \E c \in DOMAIN calls : Complete(c)

Spec == Init /\ [][Next]_vars

(***************************************************************************)
(* SpecInput: the validation of the parameters, over one stored key        *)
(***************************************************************************)
VInvalidWord == <<"i", "n", "v", "a", "l", "i", "d">>
VTooMany == <<"1", ".", "0", ".", "x", ".", "y">>
VCaret == <<"^", "1", ".", "0", ".", "0">>
VStar == <<"*">>
VTwoParts == <<"1", ".", "0">>
VPrefixed == <<"v", "1", ".", "5", ".", "0">>
VPrerelease == <<"1", ".", "5", ".", "0", "-", "r", "c", ".", "1">>

InputRequests ==
    Requests({NullText, Given(""), Given(calculateHash(K1, Salt1))},
             {NullChars, Given(<<>>), Given(V150), Given(VPrefixed), Given(VPrerelease),
              Given(VMajorOnly), Given(VTwoParts), Given(VInvalidWord), Given(VTooMany),
              Given(VCaret), Given(VStar)},
             {NullChars, Given(<<>>), Given(Salt1)})

InitInput ==
    /\ db = <<Row(K1, Star, 0)>>
    /\ SERVER_KEY = ServerKey
    /\ calls = [c \in {1} |-> Idle]

NextInput ==
    \/ \E c \in DOMAIN calls : Request(c, InputRequests)
    \/ \E c \in DOMAIN calls : FetchResolved(c)
    \/ \E c \in DOMAIN calls : FetchRejected(c)
    \/ \E c \in DOMAIN calls : HashResolved(c)
    \/ \E c \in DOMAIN calls : AttestResolved(c)
    \/ \E c \in DOMAIN calls : Complete(c)

SpecInput == InitInput /\ [][NextInput]_vars

(***************************************************************************)
(* SpecPair: two requests in flight over a fixed table                     *)
(***************************************************************************)
PairTables ==
    {<<>>,
     <<Row(K1, CaretOne, 0)>>,
     <<Row(K1, BadRange, 0)>>,
     <<Row(K1, BadRange, 0), Row(K2, Star, 0)>>,
     <<Row(K1, CaretOne, 0), Row(K2, Star, 0)>>,
     <<Row(K2, Star, 0), Row(K1, CaretOne, 1)>>}

PairRequests ==
    Requests({Given(calculateHash(K1, Salt1)), Given(calculateHash(K2, Salt1))},
             {Given(V150), Given(V200)},
             {Given(Salt1)})

InitPair ==
    /\ db \in PairTables
    /\ SERVER_KEY = ServerKey
    /\ calls = [c \in {1, 2} |-> Idle]

NextPair ==
    \/ \E c \in DOMAIN calls : Request(c, PairRequests)
    \/ \E c \in DOMAIN calls : FetchResolved(c)
    \/ \E c \in DOMAIN calls : FetchRejected(c)
    \/ \E c \in DOMAIN calls : HashResolved(c)
    \/ \E c \in DOMAIN calls : AttestResolved(c)
    \/ \E c \in DOMAIN calls : Complete(c)

SpecPair == InitPair /\ [][NextPair]_vars

(***************************************************************************)
(* SpecSecret: the server secret, which may also be a stored product key   *)
(***************************************************************************)
SecretRequests ==
    Requests({Given(calculateHash(ServerKey, Salt1)), Given(calculateHash(K1, Salt1))},
             {Given(V150), Given(V200)},
             {Given(Salt1)})

InitSecret ==
    /\ db \in PairTables
    /\ SERVER_KEY \in {ServerKey, K1}
    /\ calls = [c \in {1} |-> Idle]

NextSecret ==
    \/ \E c \in DOMAIN calls : Request(c, SecretRequests)
    \/ \E c \in DOMAIN calls : FetchResolved(c)
    \/ \E c \in DOMAIN calls : FetchRejected(c)
    \/ \E c \in DOMAIN calls : HashResolved(c)
    \/ \E c \in DOMAIN calls : AttestResolved(c)
    \/ \E c \in DOMAIN calls : Complete(c)

SpecSecret == InitSecret /\ [][NextSecret]_vars

(***************************************************************************)
(* SpecRange: one stored key under each of a family of ranges, requests    *)
(* that present its digest with each of a family of versions               *)
(***************************************************************************)
\* MAJOR.MINOR.PATCH of a triple of one-digit numbers, as text.
Render(t) == <<DigitChars[t[1] + 1], ".", DigitChars[t[2] + 1], ".", DigitChars[t[3] + 1]>>

Gte == <<">", "=">>
Lte == <<"<", "=">>
Gt == <<">">>
Lt == <<"<">>

\* Comparator clauses, and the ranges of one clause or of two separated by a space.
Clauses == [op : {Gte, Lte, Gt, Lt}, bound : {<<2, 0, 0>>, <<3, 0, 0>>}]

ClauseText(clause) == clause.op \o Render(clause.bound)

ClauseRanges ==
    {<<a>> : a \in Clauses} \cup {<<a, b>> : a \in Clauses, b \in Clauses}

ClauseRangeText(clauses) ==
    IF Len(clauses) = 1 THEN ClauseText(clauses[1])
    ELSE ClauseText(clauses[1]) \o <<" ">> \o ClauseText(clauses[2])

\* Caret ranges.
CaretBases == {<<1, 0, 0>>, <<2, 0, 0>>, <<0, 2, 3>>, <<0, 0, 3>>, <<0, 0, 0>>}

CaretText(t) == <<"^">> \o Render(t)

RangeTexts ==
    {ClauseRangeText(clauses) : clauses \in ClauseRanges}
        \cup {CaretText(t) : t \in CaretBases} \cup {Star}

\* Versions of three numbers only, and versions with a prerelease or a build part.
PlainVersions ==
    {<<1, 5, 0>>, <<2, 0, 0>>, <<2, 5, 0>>, <<3, 0, 0>>,
     <<0, 0, 0>>, <<0, 0, 1>>, <<0, 0, 2>>, <<0, 0, 3>>, <<0, 0, 4>>, <<0, 1, 0>>,
     <<0, 2, 2>>, <<0, 2, 3>>, <<0, 2, 4>>, <<0, 3, 0>>, <<1, 0, 0>>}

VBuild == <<"1", ".", "5", ".", "0", "+", "b", "7">>
VPrereleaseBuild == <<"1", ".", "5", ".", "0", "-", "r", "c", ".", "1", "+", "b", "7">>

TaggedVersions == {VPrerelease, VBuild, VPrereleaseBuild, VPrefixed}

RangeRequests ==
    Requests({Given(calculateHash(K1, Salt1))},
             {Given(Render(t)) : t \in PlainVersions} \cup {Given(v) : v \in TaggedVersions},
             {Given(Salt1)})

InitRange ==
    /\ db \in {<<Row(K1, range, 0)>> : range \in RangeTexts}
    /\ SERVER_KEY = ServerKey
    /\ calls = [c \in {1} |-> Idle]

NextRange ==
    \/ \E c \in DOMAIN calls : Request(c, RangeRequests)
    \/ \E c \in DOMAIN calls : FetchResolved(c)
    \/ \E c \in DOMAIN calls : FetchRejected(c)
    \/ \E c \in DOMAIN calls : HashResolved(c)
    \/ \E c \in DOMAIN calls : AttestResolved(c)
    \/ \E c \in DOMAIN calls : Complete(c)

SpecRange == InitRange /\ [][NextRange]_vars

(***************************************************************************)
(* SpecHash: calculateHash over several keys and salts: the server secret  *)
(* is any of four keys, and two requests may be in flight                  *)
(***************************************************************************)
HashRequests ==
    Requests({Given(calculateHash(K1, salt)) : salt \in {Salt1, Salt2, <<"0">>}},
             {Given(V150)},
             {Given(Salt1), Given(Salt2), Given(<<"0">>)})

InitHash ==
    /\ db = <<Row(K1, Star, 0)>>
    /\ SERVER_KEY \in {ServerKey, K1, K2, <<"a", "-", "l", "o", "n", "g", "e", "r", "_", "k", "e", "y">>}
    /\ calls = [c \in {1, 2} |-> Idle]

NextHash ==
    \/ \E c \in DOMAIN calls : Request(c, HashRequests)
    \/ \E c \in DOMAIN calls : FetchResolved(c)
    \/ \E c \in DOMAIN calls : FetchRejected(c)
    \/ \E c \in DOMAIN calls : HashResolved(c)
    \/ \E c \in DOMAIN calls : AttestResolved(c)
    \/ \E c \in DOMAIN calls : Complete(c)

SpecHash == InitHash /\ [][NextHash]_vars

(***************************************************************************)
(* Properties                                                              *)
(***************************************************************************)
\* The library functions and the digest, tabulated once over the values the
\* specifications use; the properties look them up.
VersionInputs ==
    {V150, V200, VMajorOnly, VTwoParts, VInvalidWord, VTooMany, VCaret, VStar, VPrefixed,
     VPrerelease}

SaltInputs == {Salt1, Salt2}

IsValidVersion == [version \in VersionInputs |-> valid(version)]

IsValidRange == [range \in Ranges |-> validRange(range)]

IsSatisfied == [version \in VersionInputs, range \in Ranges |-> satisfies(version, range)]

Digest == [key \in Keys \cup {ServerKey}, salt \in SaltInputs |-> calculateHash(key, salt)]

\* The request reached checkHandler with all three parameters non-empty.
AllGiven(call) ==
    /\ call.path = "check"
    /\ ~FalsyText(call.val)
    /\ ~FalsyChars(call.version)
    /\ ~FalsyChars(call.salt)

\* All three parameters non-empty and the version a concrete semantic version.
WellFormed(call) == AllGiven(call) /\ IsValidVersion[call.version.value]

\* Row `row` authorises the request: its range is valid and holds the version,
\* and the digest of its key over the request's salt is the presented val.
Authorises(call, row) ==
    /\ IsValidRange[row.semver_range]
    /\ IsSatisfied[call.version.value, row.semver_range]
    /\ Digest[row.key_value, call.salt.value] = call.val.value

\* The well-formed requests answered after a successful store read.
Decided == {c \in DOMAIN calls : calls[c].pc = "done" /\ calls[c].store = "read"
                                  /\ WellFormed(calls[c])}

\* C1: a well-formed request whose store read succeeded is answered 200 exactly
\* when some fetched record has a valid range that holds the version and a key
\* whose digest over the salt equals val; otherwise it is answered 403.
C1_Decision ==
    \A c \in Decided :
        calls[c].response.status =
            IF \E k \in 1..Len(calls[c].results) : Authorises(calls[c], calls[c].results[k])
            THEN 200 ELSE 403

\* A 403 over two fetched records although one of them carries the key whose
\* digest was presented: its range does not hold the version.
C1_Witness ==
    \E c \in Decided :
        /\ Len(calls[c].results) = 2
        /\ calls[c].response.status = 403
        /\ \E k \in 1..2 : Digest[calls[c].results[k].key_value, calls[c].salt.value]
                               = calls[c].val.value

\* C2: an authenticated request is answered 200 with Content-Type text/plain and
\* the digest of SERVER_KEY over the request's salt as the body.
C2_Attestation ==
    \A c \in DOMAIN calls :
        calls[c].pc = "done" /\ calls[c].isValid
            => /\ calls[c].response.status = 200
               /\ calls[c].response.contentType = "text/plain"
               /\ calls[c].response.body = Digest[SERVER_KEY, calls[c].salt.value]

C2_Witness ==
    \E c \in DOMAIN calls :
        /\ calls[c].pc = "done"
        /\ calls[c].isValid
        /\ calls[c].salt.value = Salt2

\* C3: a record whose digest does not match does not end the scan: when a later
\* record authorises the request the answer is 200, and a 403 is given only
\* after every fetched record was visited.
C3_ScanComplete ==
    \A c \in Decided :
        /\ (\E k \in 1..Len(calls[c].results) : Authorises(calls[c], calls[c].results[k]))
               => calls[c].response.status = 200
        /\ calls[c].response.status = 403 => calls[c].i = Len(calls[c].results) + 1

\* The first record holds the version but its digest differs; the second matches.
C3_Witness ==
    \E c \in Decided :
        /\ Len(calls[c].results) = 2
        /\ IsSatisfied[calls[c].version.value, calls[c].results[1].semver_range]
        /\ ~Authorises(calls[c], calls[c].results[1])
        /\ Authorises(calls[c], calls[c].results[2])
        /\ calls[c].response.status = 200

\* C4: a request to the check path with val, version or salt absent or empty is
\* answered 400 'Missing parameters: val, version, or salt', also when the
\* version is the empty one, and before the store is read.
C4_MissingParameters ==
    \A c \in DOMAIN calls :
        calls[c].pc = "done" /\ calls[c].path = "check" /\ ~AllGiven(calls[c])
            => /\ calls[c].response.status = 400
               /\ calls[c].response.body = "Missing parameters: val, version, or salt"
               /\ calls[c].store = "unread"

\* Only the version is missing (given as the empty string).
C4_Witness ==
    \E c \in DOMAIN calls :
        /\ calls[c].pc = "done"
        /\ calls[c].path = "check"
        /\ calls[c].version = Given(<<>>)
        /\ ~FalsyText(calls[c].val)
        /\ ~FalsyChars(calls[c].salt)
        /\ calls[c].response = MissingParameters

\* The version is recognisably not a concrete MAJOR.MINOR.PATCH version: it has
\* fewer than three dot-separated components, or it starts as a range expression
\* does, or one of its first three components does not start with a digit.
RangeStart == {"^", "~", "<", ">", "=", "*"}

StartsWithDigit(piece) == piece # <<>> /\ IsDigit(piece[1])

NotConcreteIn(version, pieces) ==
    \/ Len(pieces) < 3
    \/ version[1] \in RangeStart
    \/ \E k \in 1..3 : ~StartsWithDigit(IF k = 1 THEN DropV(pieces[1]) ELSE pieces[k])

NotConcrete(version) == NotConcreteIn(version, Split(version, "."))

\* C5: with val, version and salt all non-empty, a version that is not a
\* concrete semantic version ('1', '1.0', 'invalid', '1.0.x.y', '^1.0.0', '*') is
\* answered 400 'Invalid version format' and the store is never read.
C5_InvalidVersion ==
    \A c \in DOMAIN calls :
        calls[c].pc = "done" /\ AllGiven(calls[c]) /\ NotConcrete(calls[c].version.value)
            => /\ calls[c].response.status = 400
               /\ calls[c].response.body = "Invalid version format"
               /\ calls[c].store = "unread"
               /\ calls[c].reads = 0

\* A range expression given as the version was refused.
C5_Witness ==
    \E c \in DOMAIN calls :
        /\ calls[c].pc = "done"
        /\ AllGiven(calls[c])
        /\ calls[c].version.value = VCaret
        /\ calls[c].response = InvalidVersion

\* C6: any two well-formed requests that are denied get the same response,
\* status 403 and body 'Invalid ID or Version', whatever the cause of the denial.
C6_UniformDenial ==
    \A c \in Decided, d \in Decided :
        calls[c].response.status = 403 /\ calls[d].response.status = 403
            => /\ calls[c].response = calls[d].response
               /\ calls[c].response.body = "Invalid ID or Version"

\* Two denials side by side: one that never computed a digest (no fetched range
\* holds the version, or nothing was fetched), one after a digest mismatch.
C6_Witness ==
    \E c \in Decided, d \in Decided :
        /\ calls[c].response.status = 403
        /\ calls[d].response.status = 403
        /\ \A k \in 1..Len(calls[c].results) :
               ~IsSatisfied[calls[c].version.value, calls[c].results[k].semver_range]
        /\ \E k \in 1..Len(calls[d].results) :
               IsSatisfied[calls[d].version.value, calls[d].results[k].semver_range]

\* The row's stored range is a valid range expression.
HasValidRange(row) == IsValidRange[row.semver_range]

\* C7: a fetched record whose range is not a valid range expression is skipped:
\* the answer is the one the same request gets over the fetched records with
\* those records removed, and it is never an error.
C7_InvalidRangeSkipped ==
    \A c \in Decided :
        /\ calls[c].response = ResponseOver(calls[c], SelectSeq(calls[c].results, HasValidRange))
        /\ calls[c].response.status \in {200, 403}

\* An invalid range was fetched ahead of the record that authorises the request.
C7_Witness ==
    \E c \in Decided :
        /\ Len(calls[c].results) = 2
        /\ ~HasValidRange(calls[c].results[1])
        /\ Authorises(calls[c], calls[c].results[2])
        /\ calls[c].response.status = 200

\* C8: when the store read fails the request ends with 500 'Internal Server
\* Error', never with 200, 400 or 403.
C8_StoreFailure ==
    \A c \in DOMAIN calls :
        calls[c].store = "failed"
            => /\ calls[c].pc = "done"
               /\ calls[c].response.status = 500
               /\ calls[c].response.body = "Internal Server Error"

\* The store failed under a request that a successful read would have
\* authenticated or denied.
C8_Witness ==
    \E c \in DOMAIN calls :
        /\ calls[c].store = "failed"
        /\ WellFormed(calls[c])
        /\ db # <<>>
        /\ calls[c].response = InternalError

\* The digests of the modelled keys over the modelled salts are pairwise distinct.
DigestsDistinct ==
    \A a \in DOMAIN Digest, b \in DOMAIN Digest : Digest[a] = Digest[b] => a = b

\* The request would be authorised by `row` had it come with salt `salt`.
AuthorisesUnder(call, row, salt) == Authorises([call EXCEPT !.salt = Given(salt)], row)

\* The val of the request is one that some fetched record authorises under a
\* salt other than the request's.
Replayed(call) ==
    \E salt \in SaltInputs \ {call.salt.value} :
        \E k \in 1..Len(call.results) : AuthorisesUnder(call, call.results[k], salt)

\* C9: a val that authenticates with one salt is denied when presented with a
\* different salt, for the same version and fetched records.
C9_ReplayDenied ==
    \A c \in Decided : Replayed(calls[c]) => calls[c].response = Denied

C9_Witness ==
    \E c \in Decided :
        /\ Replayed(calls[c])
        /\ calls[c].salt.value = Salt2
        /\ calls[c].response = Denied

\* C10: no step of a verification request changes the store.
C10_StoreUntouched ==
    [][(\E c \in DOMAIN calls : HandlerStep(c)) => db' = db]_vars

\* A request was authenticated against a non-empty store, all its steps taken.
C10_Witness ==
    \E c \in DOMAIN calls :
        /\ calls[c].pc = "done"
        /\ calls[c].response.status = 200
        /\ Len(calls[c].results) = 2
        /\ Len(db) = 2

\* Calls c and d carry the same request to the same revision of the handler.
SameRequest(c, d) ==
    /\ calls[c].path = calls[d].path
    /\ calls[c].variant = calls[d].variant
    /\ calls[c].val = calls[d].val
    /\ calls[c].version = calls[d].version
    /\ calls[c].salt = calls[d].salt

\* The calls that were answered without a failure of the store.
Answered == {c \in DOMAIN calls : calls[c].pc = "done" /\ calls[c].store # "failed"}

\* C11: the same request (val, version, salt) issued twice against an unchanged
\* record set and server secret gets the same status and the same body both
\* times (both reads of the store succeeding).
C11_Idempotent ==
    \A c \in Answered, d \in Answered :
        SameRequest(c, d)
            => /\ calls[c].response.status = calls[d].response.status
               /\ calls[c].response.body = calls[d].response.body

\* The same request answered 200 twice, the store having returned the two rows
\* in a different order each time.
C11_Witness ==
    \E c \in Answered, d \in Answered :
        /\ c # d
        /\ SameRequest(c, d)
        /\ Len(calls[c].results) = 2
        /\ calls[c].results # calls[d].results
        /\ calls[c].response.status = 200
        /\ calls[d].response.status = 200

\* C12: a call reads the record set once, before the scan, and its answer is the
\* decision over the rows it read then, whatever insertions and removals happen
\* while its digests are computed.
C12_Snapshot ==
    \A c \in Decided :
        /\ calls[c].reads = 1
        /\ calls[c].response = ResponseOver(calls[c], calls[c].results)

\* A call was authenticated by the second row it had read, after a first digest
\* that did not match, although the table holds no row any more.
C12_Witness ==
    \E c \in Decided :
        /\ calls[c].response.status = 200
        /\ calls[c].i = 2
        /\ ~Authorises(calls[c], calls[c].results[1])
        /\ IsSatisfied[calls[c].version.value, calls[c].results[1].semver_range]
        /\ db = <<>>

\* The rows of the table in the order of their insertion, as the query selects them.
InCreationOrder == [j \in 1..Len(db) |-> Selected(db[j])]

\* The calls that have read the table, which no step has changed since.
HaveRead == {c \in DOMAIN calls : calls[c].store = "read"}

\* C13 (as stated): every scan of an unchanged record set visits the records in
\* the same sequence, their creation order, also when records share a created_at.
C13_CreationOrder ==
    \A c \in HaveRead : calls[c].results = InCreationOrder

\* The created_at of the row that holds `key`.
CreatedAt(key) == db[CHOOSE j \in 1..Len(db) : db[j].key_value = key].created_at

\* C13 (what the ORDER BY gives): the revision that orders by created_at visits
\* the rows of an unchanged table by non-decreasing created_at.
C13_OrderedByCreatedAt ==
    \A c \in HaveRead :
        calls[c].variant = "validated"
            => \A a, b \in 1..Len(calls[c].results) :
                   a < b => CreatedAt(calls[c].results[a].key_value)
                                <= CreatedAt(calls[c].results[b].key_value)

\* Two rows with different timestamps were read, by the ordering revision.
C13_Witness ==
    \E c \in HaveRead :
        /\ calls[c].variant = "validated"
        /\ Len(calls[c].results) = 2
        /\ db[1].created_at < db[2].created_at

\* The calls whose scan found a match: they compute the attestation or have
\* answered with it.
Matched == {c \in DOMAIN calls : calls[c].isValid}

\* C14: the scan stops at the first match: the loop stands at the first row
\* that authorises the request, no row after it was range-checked or hashed, and
\* the call is computing the attestation or has answered 200.
C14_StopsAtFirstMatch ==
    \A c \in Matched :
        /\ calls[c].i \in 1..Len(calls[c].results)
        /\ Authorises(calls[c], calls[c].results[calls[c].i])
        /\ \A k \in 1..(calls[c].i - 1) : ~Authorises(calls[c], calls[c].results[k])
        /\ \/ calls[c].pc = "attesting"
           \/ calls[c].pc = "done" /\ calls[c].response.status = 200

\* The first of two rows matched; the second, whose range also holds the
\* version, was left unvisited.
C14_Witness ==
    \E c \in Matched :
        /\ calls[c].pc = "done"
        /\ Len(calls[c].results) = 2
        /\ calls[c].i = 1
        /\ IsSatisfied[calls[c].version.value, calls[c].results[2].semver_range]

\* The terminal outcomes of a verification call.
Outcomes ==
    {MissingParameters, InvalidVersion, Denied, InternalError}
        \cup {Authenticated(Digest[ServerKey, salt]) : salt \in SaltInputs}

\* A bound on the awaits a call still has ahead of it: the store read, then one
\* digest for each row from the current one on, then the attestation.
Rank(call) ==
    CASE call.pc = "fetching" -> MaxRows + 3
      [] call.pc = "hashing" -> Len(call.results) - call.i + 2
      [] call.pc = "attesting" -> 1
      [] OTHER -> 0

\* What a step may do to call c: nothing; or start it on a free slot; or, while
\* it awaits, resume it with fewer awaits ahead; or, once it has its answer, free
\* the slot.
CallStep(c) ==
    \/ calls'[c] = calls[c]
    \/ calls[c].pc = "idle"
    \/ calls[c].pc \in {"fetching", "hashing", "attesting"}
           /\ calls'[c].pc # "idle"
           /\ Rank(calls'[c]) < Rank(calls[c])
    \/ calls[c].pc = "done" /\ calls'[c] = Idle

\* Call c, when it awaits a digest, awaits that of a row it has read; when it
\* has answered a request to /check, the answer is one of the outcomes.
CallState(c) ==
    /\ calls[c].pc \in {"idle", "fetching", "hashing", "attesting", "done"}
    /\ calls[c].pc = "hashing" => calls[c].i \in 1..Len(calls[c].results)
    /\ calls[c].pc = "done" /\ calls[c].path = "check" => calls[c].response \in Outcomes
    /\ calls[c].pc # "done" => calls[c].response = NoResponse

\* C15: every verification call terminates, in exactly one of the outcomes
\* missing parameters, invalid version format, Denied, Authenticated or store
\* failure: each resumption leaves it strictly fewer awaits, at most one for the
\* read, one for each row and one for the attestation; it answers once and no
\* branch goes back or retries.
C15_Terminates ==
    /\ [](\A c \in DOMAIN calls : CallState(c))
    /\ [][\A c \in DOMAIN calls : CallStep(c)]_vars

\* A call was denied at the end of a scan over two rows, after a digest that
\* did not match.
C15_Witness ==
    \E c \in DOMAIN calls :
        /\ calls[c].pc = "done"
        /\ calls[c].response = Denied
        /\ Len(calls[c].results) = 2
        /\ \E k \in 1..2 : IsSatisfied[calls[c].version.value, calls[c].results[k].semver_range]

\* The request presents the digest of the server secret over its own salt.
PresentsServerDigest(call) == call.val.value = Digest[SERVER_KEY, call.salt.value]

\* C16: SERVER_KEY is not compared with client input: a request whose val is the
\* digest of the server secret over its salt is denied, unless a record that was
\* read authorises it by its own range and key.
C16_SecretNotCompared ==
    \A c \in Decided :
        PresentsServerDigest(calls[c])
            => calls[c].response.status =
                   IF \E k \in 1..Len(calls[c].results) :
                          Authorises(calls[c], calls[c].results[k])
                   THEN 200 ELSE 403

\* The digest of the server secret was presented, the scan hashed a row whose
\* range holds the version, and the request was denied.
C16_Witness ==
    \E c \in Decided :
        /\ PresentsServerDigest(calls[c])
        /\ \E k \in 1..Len(calls[c].results) :
               IsSatisfied[calls[c].version.value, calls[c].results[k].semver_range]
        /\ calls[c].response = Denied

\* The answers the request of `call` gets when it runs alone over the table:
\* one for each order in which the store may return the rows.
AloneAnswers(call) == {ResponseOver(call, results) : results \in QueryResults(db, call.variant)}

\* C17: with no administrative writes, a call that runs interleaved with
\* another gets the answer it gets when it runs alone over the same record set.
C17_Independent ==
    \A c \in Decided : AloneAnswers(calls[c]) = {calls[c].response}

\* A call was denied while another call, with a different request and since
\* authenticated or about to be, was in flight.
C17_Witness ==
    \E c \in Decided, d \in DOMAIN calls :
        /\ c # d
        /\ calls[c].response = Denied
        /\ Len(calls[c].results) = 2
        /\ calls[d].isValid
        /\ calls[d].pc = "attesting"

\* The order of versions of three numbers.
TripleLess(a, b) ==
    \/ a[1] < b[1]
    \/ a[1] = b[1] /\ a[2] < b[2]
    \/ a[1] = b[1] /\ a[2] = b[2] /\ a[3] < b[3]

\* What a comparator clause asks of a version: >= and <= include the bound,
\* > and < exclude it.
ClauseHolds(t, clause) ==
    CASE clause.op = Gte -> ~TripleLess(t, clause.bound)
      [] clause.op = Lte -> ~TripleLess(clause.bound, t)
      [] clause.op = Gt -> TripleLess(clause.bound, t)
      [] clause.op = Lt -> TripleLess(t, clause.bound)

\* The ranges of the comparator family and the caret ranges of a non-zero major,
\* each with the clauses it stands for: ^M.m.p is >=M.m.p <(M+1).0.0.
BoundedRanges ==
    {[text |-> ClauseRangeText(clauses), clauses |-> {clauses[k] : k \in 1..Len(clauses)}] :
        clauses \in ClauseRanges}
    \cup {[text |-> CaretText(t),
           clauses |-> {[op |-> Gte, bound |-> t], [op |-> Lt, bound |-> <<t[1] + 1, 0, 0>>]}] :
             t \in {b \in CaretBases : b[1] > 0}}

\* The calls answered over the one row read, the version being that of triple t.
AnsweredFor(t) ==
    {c \in DOMAIN calls : calls[c].pc = "done" /\ calls[c].store = "read"
                           /\ calls[c].version.value = Render(t)}

\* C18: with the digest of the stored key presented, the answer is 200 when the
\* version meets every clause of the record's range and 403 otherwise, a >= or
\* <= bound being met by the bound itself and a > or < bound not; ^M.m.p, M > 0,
\* stands for >=M.m.p <(M+1).0.0.
C18_BoundsAndConjunction ==
    \A range \in BoundedRanges, t \in PlainVersions : \A c \in AnsweredFor(t) :
        calls[c].results[1].semver_range = range.text
            => calls[c].response.status =
                   IF \A clause \in range.clauses : ClauseHolds(t, clause) THEN 200 ELSE 403

\* 3.0.0 was refused under >=2.0.0 <3.0.0: the first clause holds, the second
\* does not.
C18_Witness ==
    \E c \in AnsweredFor(<<3, 0, 0>>) :
        /\ calls[c].results[1].semver_range
               = ClauseRangeText(<<[op |-> Gte, bound |-> <<2, 0, 0>>],
                                   [op |-> Lt, bound |-> <<3, 0, 0>>]>>)
        /\ calls[c].response = Denied

\* The calls answered over the one row read, whose range is `range`.
AnsweredUnder(range) ==
    {c \in DOMAIN calls : calls[c].pc = "done" /\ calls[c].store = "read"
                           /\ calls[c].results[1].semver_range = range}

\* C19 (as stated): under the range * every version that passes the version
\* check, a prerelease or a build part included, is authenticated when the
\* digest of the stored key is presented.
C19_WildcardMatchesAll ==
    \A c \in AnsweredUnder(Star) : calls[c].response.status = 200

\* The version carries a prerelease part: a hyphen before any plus sign.
HasPrerelease(version) ==
    \E k \in 1..Len(version) :
        version[k] = "-" /\ \A j \in 1..k : version[j] # "+"

\* C19 (what the handler does): under the range * a version is authenticated
\* exactly when it carries no prerelease part; a build part or a leading v does
\* not matter.
C19_WildcardMatchesReleases ==
    \A c \in AnsweredUnder(Star) :
        calls[c].response.status = IF HasPrerelease(calls[c].version.value) THEN 403 ELSE 200

\* A version with a build part was authenticated under *.
C19_Witness ==
    \E c \in AnsweredUnder(Star) :
        /\ calls[c].version.value = VBuild
        /\ calls[c].response.status = 200

\* The versions the caret range of base t, major 0, holds according to the
\* statement: same major and minor, patch not below the base's.
PatchLevelOf(t) == {v \in PlainVersions : v[1] = 0 /\ v[2] = t[2] /\ v[3] >= t[3]}

LowerHex == {HexChars[k] : k \in 1..16}

\* The text is 64 characters long, each in 0-9a-f.
IsDigestText(text) ==
    /\ Len(text) = 2 * SignatureBytes
    /\ \A k \in 1..Len(text) : SubSeq(text, k, k) \in LowerHex

\* The calls that were authenticated and have their answer: their val equals the
\* digest the handler computed for a row, their body is the digest it computed
\* for the server secret.
Attested == {c \in DOMAIN calls : calls[c].pc = "done" /\ calls[c].isValid}

\* C21: a digest computed by calculateHash is 64 characters, each in 0-9a-f
\* (two for each of the 32 signature bytes, a byte below 16 zero-padded), and
\* computing it again for the same key and data gives the same text.
C21_DigestText ==
    \A c \in Attested :
        /\ IsDigestText(calls[c].response.body)
        /\ IsDigestText(calls[c].val.value)
        /\ calls[c].response.body = calculateHash(SERVER_KEY, calls[c].salt.value)
        /\ \A d \in Attested :
               calls[d].salt = calls[c].salt => calls[d].response.body = calls[c].response.body

\* Two calls with the same salt were attested with a digest one of whose bytes
\* is below 16: its first hex digit is the padding 0.
C21_Witness ==
    \E c \in Attested, d \in Attested :
        /\ c # d
        /\ calls[c].salt = calls[d].salt
        /\ \E k \in 1..SignatureBytes :
               SubSeq(calls[c].response.body, 2 * k - 1, 2 * k - 1) = "0"

\* The calls that await a row's digest, which they compare with val next.
Comparing == {c \in DOMAIN calls : calls[c].pc = "hashing"}

\* The character pairs the comparison of call c looks at.
ComparisonSteps(c) ==
    StrictEqualsSteps(HashOf(calls[c].variant, calls[c].results[calls[c].i].key_value,
                             calls[c].salt.value),
                      calls[c].val.value)

\* C22 (as stated): the comparison of val with the computed digest takes the
\* same number of steps whatever the secret and wherever the first differing
\* character stands: any two comparisons of 64-character values take the same.
C22_ConstantTime ==
    \A c \in Comparing, d \in Comparing : ComparisonSteps(c) = ComparisonSteps(d)

\* The digest of the row's key over the request's salt is the presented val.
KeyMatches(call, row) == Digest[row.key_value, call.salt.value] = call.val.value

\* The row's range is valid and holds the request's version.
RangeHolds(call, row) ==
    IsValidRange[row.semver_range] /\ IsSatisfied[call.version.value, row.semver_range]

\* C23: key and range are bound per record: a request is authenticated only
\* when one and the same fetched record has the key whose digest is val and a
\* range that holds the version; when no single record has both, also when one
\* record has the key and another the range, the request is denied.
C23_BoundPerRecord ==
    \A c \in Decided :
        /\ calls[c].response.status = 200
               => \E k \in 1..Len(calls[c].results) :
                      /\ KeyMatches(calls[c], calls[c].results[k])
                      /\ RangeHolds(calls[c], calls[c].results[k])
        /\ (\A k \in 1..Len(calls[c].results) :
                ~(KeyMatches(calls[c], calls[c].results[k])
                      /\ RangeHolds(calls[c], calls[c].results[k])))
               => calls[c].response = Denied

\* The val is the digest of record A's key, the version is held by record B's
\* range and not by A's, and the request was denied.
C23_Witness ==
    \E c \in Decided :
        \E a \in 1..Len(calls[c].results), b \in 1..Len(calls[c].results) :
            /\ KeyMatches(calls[c], calls[c].results[a])
            /\ ~RangeHolds(calls[c], calls[c].results[a])
            /\ RangeHolds(calls[c], calls[c].results[b])
            /\ calls[c].response = Denied

\* C24 (as stated): the server never echoes the client's value: the body of
\* every 200 response differs from the request's val.
C24_NeverEchoes ==
    \A c \in Attested : calls[c].response.body # calls[c].val.value

\* C24 (what the handler does): the body of a 200 response is the digest of
\* SERVER_KEY over the salt; it equals the request's val exactly when SERVER_KEY
\* is the key of the record that matched.
C24_EchoesOnlySharedSecret ==
    \A c \in Attested :
        /\ calls[c].response.body = Digest[SERVER_KEY, calls[c].salt.value]
        /\ calls[c].response.body = calls[c].val.value
               <=> SERVER_KEY = calls[c].results[calls[c].i].key_value

\* A request was authenticated by a record whose key is not the server secret:
\* the body is not its val.
C24_Witness ==
    \E c \in Attested :
        /\ SERVER_KEY # calls[c].results[calls[c].i].key_value
        /\ calls[c].response.status = 200
        /\ calls[c].response.body # calls[c].val.value

\* `part` occurs in `text`.
Contains(text, part) ==
    \E k \in 1..(Len(text) - Len(part) + 1) : SubSeq(text, k, k + Len(part) - 1) = part

\* The calls that await the digest of the server secret or have received it.
Attesting == {c \in DOMAIN calls : calls[c].pc = "attesting" \/ calls[c].response.status = 200}

\* The calls answered with another status than 200.
Refused == {c \in DOMAIN calls : calls[c].pc = "done" /\ calls[c].response.status # 200}

\* C25: the digest of the server secret is computed only after a record has
\* matched, and the body of a 400, 403 or 500 response neither is nor contains
\* the digest of the server secret, over the request's salt or any other.
C25_AttestationWithheld ==
    /\ \A c \in Attesting :
           /\ calls[c].isValid
           /\ KeyMatches(calls[c], calls[c].results[calls[c].i])
    /\ \A c \in Refused :
           /\ calls[c].response.status \in {400, 403, 404, 500}
           /\ \A salt \in SaltInputs : ~Contains(calls[c].response.body, Digest[SERVER_KEY, salt])

\* A request that presented the digest of the server secret itself was denied
\* after the digest of a row was compared with it.
C25_Witness ==
    \E c \in Refused :
        /\ calls[c].response.status = 403
        /\ PresentsServerDigest(calls[c])
        /\ \E k \in 1..Len(calls[c].results) : RangeHolds(calls[c], calls[c].results[k])

\* C26: validation precedes the store read and the store is read at most once:
\* a request to /check with a missing parameter or an invalid version is
\* answered 400 without a read, whatever the store would do; a well-formed
\* request is answered after exactly one read, and a failed read is not retried.
C26_ValidationFirst ==
    \A c \in DOMAIN calls :
        /\ calls[c].reads <= 1
        /\ calls[c].path = "check" /\ ~WellFormed(calls[c])
               => /\ calls[c].pc = "done"
                  /\ calls[c].response.status = 400
                  /\ calls[c].reads = 0
                  /\ calls[c].store = "unread"
        /\ calls[c].pc = "done" /\ WellFormed(calls[c])
               => calls[c].reads = 1 /\ calls[c].store \in {"read", "failed"}
        /\ calls[c].store = "failed" => calls[c].pc = "done" /\ calls[c].reads = 1

\* A request with all parameters and a version that is no semantic version was
\* answered 400 without a read.
C26_Witness ==
    \E c \in DOMAIN calls :
        /\ AllGiven(calls[c])
        /\ ~IsValidVersion[calls[c].version.value]
        /\ calls[c].response = InvalidVersion
        /\ calls[c].reads = 0

\* The rows of `results` in every order.
Reorderings(results) ==
    {[j \in 1..Len(results) |-> results[f[j]]] : f \in RowOrders(Len(results))}

\* C27: the outcome does not depend on the order of iteration: the answer of a
\* call is the one its request gets over every permutation of the rows it read,
\* and two calls with the same request that read the same rows in different
\* orders get the same status and body, wherever each scan stopped.
C27_OrderIndependent ==
    \A c \in Decided :
        /\ \A results \in Reorderings(calls[c].results) :
               ResponseOver(calls[c], results) = calls[c].response
        /\ \A d \in Decided :
               SameRequest(c, d) /\ calls[d].results \in Reorderings(calls[c].results)
                   => /\ calls[d].response.status = calls[c].response.status
                      /\ calls[d].response.body = calls[c].response.body

\* The same request was authenticated twice over the same two rows, read in
\* opposite orders: one scan stopped at its first row, the other at its second.
C27_Witness ==
    \E c \in Decided, d \in Decided :
        /\ SameRequest(c, d)
        /\ Len(calls[c].results) = 2
        /\ calls[d].results = <<calls[c].results[2], calls[c].results[1]>>
        /\ calls[c].response.status = 200
        /\ calls[d].response.status = 200
        /\ calls[c].i = 1
        /\ calls[d].i = 2

\* The request of `call`, handled by the other revision of checkHandler.
ByOtherVariant(call) ==
    [call EXCEPT !.variant = IF call.variant = "plain" THEN "validated" ELSE "plain"]

\* Calls c and d carry the same request, each to another revision.
SameRequestOtherVariant(c, d) ==
    /\ calls[c].variant # calls[d].variant
    /\ calls[c].path = calls[d].path
    /\ calls[c].val = calls[d].val
    /\ calls[c].version = calls[d].version
    /\ calls[c].salt = calls[d].salt

\* C28: the two revisions of checkHandler are observationally equivalent: over
\* the rows a call read, in any order, the other revision gives the same
\* request the same answer, and two calls that carry the same request to the
\* two revisions over the same record set get the same status and body.
C28_VariantsAgree ==
    \A c \in Decided :
        /\ \A results \in Reorderings(calls[c].results) :
               ResponseOver(ByOtherVariant(calls[c]), results) = calls[c].response
        /\ \A d \in Decided :
               SameRequestOtherVariant(c, d)
                   => /\ calls[d].response.status = calls[c].response.status
                      /\ calls[d].response.body = calls[c].response.body

\* Both revisions denied the request whose val is the digest of a key stored
\* under an invalid range: one skipped the record on validRange, the other on
\* satisfies.
C28_Witness ==
    \E c \in Decided, d \in Decided :
        /\ SameRequestOtherVariant(c, d)
        /\ \E k \in 1..Len(calls[c].results) :
               /\ ~HasValidRange(calls[c].results[k])
               /\ KeyMatches(calls[c], calls[c].results[k])
        /\ Len(calls[d].results) = 2
        /\ calls[c].response = Denied
        /\ calls[d].response = Denied

====
